---- MODULE Spec2Model ----
(***************************************************************************)
(* WinDo task notifier: the alert player (src/services/audioService.ts,    *)
(* class AudioService), the due-task scan (src/App.tsx, "Timer Logic"),    *)
(* and the handlers and effects of App that write the task collection:     *)
(* the task forms, the edit modal, the CSV import and the cloud sync.      *)
(*                                                                         *)
(* JavaScript runs one handler at a time, so every handler is one atomic   *)
(* action, up to its first await.  What follows an await (the resume of    *)
(* the audio context, the fetch/decode of the custom sound) is a separate  *)
(* action that the browser runs later.  Timers and media events are        *)
(* untimed: an armed timer may fire at any later step.                     *)
(***************************************************************************)
EXTENDS Integers, Sequences, FiniteSets, TLC

VARIABLES
  audioService,   \* the AudioService singleton and the browser audio it drives
  tasks,          \* App state: the task collection, in list order
  settings,       \* App state: the AppSettings
  isAlarmRinging, \* App state: the "is ringing" flag
  clock,          \* the wall clock: an index into Instants
  app,            \* App state and effects around the task collection: the
                  \* task being edited, the signed-in user, the armed
                  \* timeouts of the debounced save, and the cloud document
  lastOp          \* history: the handler that ran last, [op, sess]; for a
                  \* tick, also the number of tasks it matched

\* ---------------------------------------------------------------- bounds

\* playNotification calls of the settings preview in one behaviour
MaxSessions == 2

\* tasks the user adds in one behaviour
MaxTasks == 2

\* lists the cloud subscription delivers in one behaviour
MaxReplacements == 2

\* edits the user saves in one behaviour
MaxEdits == 2

\* ---------------------------------------------------------------- settings

SoundModes == {"bell", "tts", "custom"}

\* audioDuration values (seconds): the cap disabled, and the default of 30
Durations == {0, 30}

\* customSoundData: "" is null, "dataA" decodes, "corrupt" does not
Payloads == {"", "dataA", "corrupt"}

\* What fetch() and decodeAudioData() make of a payload
Decodable(data) == data # "corrupt"

\* The fields of AppSettings that the scan and playNotification branch on
AppSettings ==
  [autoComplete : BOOLEAN, soundMode : SoundModes, audioDuration : Durations,
   audioLoop : BOOLEAN, customSoundData : Payloads]

DEFAULT_SETTINGS ==
  [autoComplete |-> FALSE, soundMode |-> "bell", audioDuration |-> 30,
   audioLoop |-> TRUE, customSoundData |-> ""]

\* ---------------------------------------------------------------- AudioService

(***************************************************************************)
(* audioService holds the object's fields                                  *)
(*   audioContext      "none" (null), "suspended" or "running"             *)
(*   customAudioBuffer "" (null) or the payload the cached buffer decodes  *)
(*   currentSource     0 (null) or the session whose source node it is     *)
(*   stopTimeout       0 (null) or the session whose ceiling timer it is   *)
(*   loopInterval      0 (null) or the session whose loop handle it is     *)
(*   onPlaybackEnd     0 (null) or the session whose onEnd is registered   *)
(* and what the browser holds on its behalf                                *)
(*   nodes      started source nodes that have not ended or been stopped   *)
(*   timers     armed setTimeout/setInterval handles                       *)
(*   utterance  the utterance speechSynthesis speaks, or NoUtterance       *)
(*   endEvents  ended utterances whose 'end' event is queued               *)
(*   pending    suspended async calls, waiting on resume() or on decode    *)
(*   speechSynthesis  'speechSynthesis' in window                          *)
(*   userActivation   the autoplay policy lets a new context start running *)
(*   contextAvailable the browser has an AudioContext constructor          *)
(*   thrown     an exception is propagating (only inside a handler)        *)
(*   rejected   the playNotification calls whose promise was rejected      *)
(*   sessions   one record per playNotification call, in call order: the   *)
(*              message and the onEnd closure it was given, the branch and *)
(*              the payload of its settings, and how often that onEnd has  *)
(*              run                                                        *)
(* A closure is kept with what it captured: a suspended call with its      *)
(* settings, an utterance with its onend handler.                          *)
(* A session creates at most one live node and one timer of each kind at a *)
(* time (an oscillator lasts 0.6 s, the bell interval is 1 s), so nodes,   *)
(* timers and handles are named by their session.                          *)
(***************************************************************************)

\* speechSynthesis speaks nothing
NoUtterance == [sess |-> 0, onEnd |-> "none"]

NewAudioService ==
  [audioContext |-> "none", customAudioBuffer |-> "", currentSource |-> 0,
   stopTimeout |-> 0, loopInterval |-> 0, onPlaybackEnd |-> 0,
   nodes |-> {}, timers |-> {}, utterance |-> NoUtterance, endEvents |-> {},
   pending |-> {}, speechSynthesis |-> TRUE, userActivation |-> FALSE,
   contextAvailable |-> TRUE, thrown |-> FALSE, rejected |-> {},
   sessions |-> <<>>]

\* getContext: create the context on first use; without a constructor the
\* new expression throws
getContext(a) ==
  IF a.audioContext = "none"
    THEN IF a.contextAvailable
           THEN [a EXCEPT !.audioContext =
                   IF a.userActivation THEN "running" ELSE "suspended"]
           ELSE [a EXCEPT !.thrown = TRUE]
    ELSE a

\* playBellSound: start an oscillator and make it the current source
playBellSound(a, s) ==
  LET c == getContext(a)
  IN  IF c.thrown THEN c
      ELSE [c EXCEPT
              !.nodes = {n \in c.nodes : n.sess # s}
                          \cup {[sess |-> s, kind |-> "osc", loop |-> FALSE,
                                 data |-> ""]},
              !.currentSource = s]

\* Faulty variant of speakText: the capability is not tested
speakText_unguarded(a, s, onEnd) ==
  [a EXCEPT !.utterance = [sess |-> s, onEnd |-> onEnd]]

\* speakText: cancel what is spoken and speak a new utterance of session s,
\* whose onend is the closure onEnd ("speakLoop" or "naturalEnd")
speakText(a, s, onEnd) ==
  IF a.speechSynthesis
    THEN [a EXCEPT !.utterance = [sess |-> s, onEnd |-> onEnd]]
    ELSE a

\* invoking the registered callback of session s
InvokeOnEnd(a, s) ==
  [a EXCEPT !.sessions[s].onEndCalls = @ + 1]

\* stop, step 1: stop the current Web Audio source
stopSource(a) ==
  IF a.currentSource # 0
    THEN [a EXCEPT !.nodes = {n \in a.nodes : n.sess # a.currentSource},
                   !.currentSource = 0]
    ELSE a

\* stop, step 2: speechSynthesis.cancel()
stopSpeech(a) ==
  IF a.speechSynthesis THEN [a EXCEPT !.utterance = NoUtterance] ELSE a

\* Faulty variant of stopTimers: the loop handle is left armed
stopTimers_keepsLoop(a) ==
  IF a.stopTimeout # 0
    THEN [a EXCEPT
            !.timers = {t \in a.timers :
                          ~(t.sess = a.stopTimeout /\ t.kind = "ceiling")},
            !.stopTimeout = 0]
    ELSE a

\* stop, step 3: clear the ceiling timeout and the loop handle
stopTimers(a) ==
  LET b == IF a.stopTimeout # 0
             THEN [a EXCEPT
                     !.timers = {t \in a.timers :
                                   ~(t.sess = a.stopTimeout /\ t.kind = "ceiling")},
                     !.stopTimeout = 0]
             ELSE a
  IN  IF b.loopInterval # 0
        THEN [b EXCEPT
                !.timers = {t \in b.timers :
                              ~(t.sess = b.loopInterval /\ t.kind # "ceiling")},
                !.loopInterval = 0]
        ELSE b

\* Faulty variant of stopCallback: the registration is kept
stopCallback_keepsRegistration(a) ==
  IF a.onPlaybackEnd # 0 THEN InvokeOnEnd(a, a.onPlaybackEnd) ELSE a

\* stop, step 4: trigger the callback and drop the registration
stopCallback(a) ==
  IF a.onPlaybackEnd # 0
    THEN [InvokeOnEnd(a, a.onPlaybackEnd) EXCEPT !.onPlaybackEnd = 0]
    ELSE a

stop(a) == stopCallback(stopTimers(stopSpeech(stopSource(a))))

\* playCustom after the decode: create the buffer source and start it
startBuffer(a, s, loop) ==
  [a EXCEPT
     !.nodes = {n \in a.nodes : n.sess # s}
                 \cup {[sess |-> s, kind |-> "buffer", loop |-> loop,
                        data |-> a.customAudioBuffer]},
     !.currentSource = s]

\* Faulty variant of playCustomCatch: the error is logged and nothing is played
playCustomCatch_silent(a, s) == a

\* playCustom's catch block: the fallback
playCustomCatch(a, s) == playBellSound(a, s)

\* playCustom up to its first await; what getContext throws is caught
playCustom(a, s, set) ==
  LET c == getContext(a)
  IN  IF c.thrown
        THEN playCustomCatch([c EXCEPT !.thrown = FALSE], s)
      ELSE IF c.customAudioBuffer = ""
        THEN [c EXCEPT !.pending = @ \cup {[sess |-> s, stage |-> "decode",
                                            settings |-> set]}]
      ELSE startBuffer(c, s, set.audioLoop)

\* playNotification: arming the ceiling ("Set Max Duration Timeout")
armStopTimeout(a, s, set) ==
  IF set.audioDuration > 0
    THEN [a EXCEPT !.timers = @ \cup {[sess |-> s, kind |-> "ceiling"]},
                   !.stopTimeout = s]
    ELSE a

\* Faulty variant of playBell: the tone is played once, whatever audioLoop
playBell_once(a, s, set) == playBellSound(a, s)

\* playNotification: the bell branch
playBell(a, s, set) ==
  IF set.audioLoop
    THEN LET b == playBellSound(a, s)
         IN  IF b.thrown THEN b
             ELSE [b EXCEPT !.timers = @ \cup {[sess |-> s, kind |-> "bell"]},
                            !.loopInterval = s]
    ELSE playBellSound(a, s)

\* the branch of playNotification that the settings select
soundBranch(set) ==
  IF set.soundMode = "tts" THEN "tts"
  ELSE IF set.soundMode = "custom" /\ set.customSoundData # "" THEN "custom"
  ELSE "bell"

\* playNotification: the dispatch on soundMode
dispatch(a, s, set) ==
  IF set.soundMode = "tts"
    THEN speakText(a, s, IF set.audioLoop THEN "speakLoop" ELSE "naturalEnd")
  ELSE IF set.soundMode = "custom" /\ set.customSoundData # ""
    THEN playCustom(a, s, set)
  ELSE playBell(a, s, set)

\* The promise of the async call of session s: an exception that reaches the
\* end of the function rejects it
settle(a, s) ==
  IF a.thrown THEN [a EXCEPT !.thrown = FALSE, !.rejected = @ \cup {s}] ELSE a

\* playNotification from "Set Max Duration Timeout" on
afterResume(a, s, set) == settle(dispatch(armStopTimeout(a, s, set), s, set), s)

\* playNotification up to its first await
playNotification(a, set, taskTitle, onEnd) ==
  LET b == stop(a)
      s == Len(b.sessions) + 1
      c == [b EXCEPT
              !.sessions = Append(@, [title |-> taskTitle, onEnd |-> onEnd,
                                      mode |-> soundBranch(set),
                                      data |-> set.customSoundData,
                                      onEndCalls |-> 0]),
              !.onPlaybackEnd = s]
  IN  IF c.audioContext = "suspended"
        THEN [c EXCEPT !.pending = @ \cup {[sess |-> s, stage |-> "resume",
                                            settings |-> set]}]
        ELSE afterResume(c, s, set)

\* the onend closures playNotification hands to speakText, for session s
utteranceOnEnd(a, s, onEnd) ==
  IF onEnd = "speakLoop"
    THEN [a EXCEPT !.timers = @ \cup {[sess |-> s, kind |-> "speakLoop"]},
                   !.loopInterval = s]
    ELSE IF a.onPlaybackEnd # 0 THEN InvokeOnEnd(a, a.onPlaybackEnd) ELSE a

clearCustomCache(a) == [a EXCEPT !.customAudioBuffer = ""]

\* ---------------------------------------------------------------- the clock

\* The instants the wall clock passes through, as the fields of a JS Date
\* (getMonth() counts from 0)
Instants ==
  << [year |-> 2024, month |-> 0, date |-> 9, hours |-> 9, minutes |-> 0],
     [year |-> 2024, month |-> 0, date |-> 9, hours |-> 9, minutes |-> 1],
     [year |-> 2024, month |-> 0, date |-> 10, hours |-> 9, minutes |-> 0] >>

Digit(n) ==
  CASE n = 0 -> "0" [] n = 1 -> "1" [] n = 2 -> "2" [] n = 3 -> "3" [] n = 4 -> "4"
    [] n = 5 -> "5" [] n = 6 -> "6" [] n = 7 -> "7" [] n = 8 -> "8" [] n = 9 -> "9"

\* String(n) of a natural number
RECURSIVE String(_)
String(n) == IF n < 10 THEN Digit(n) ELSE String(n \div 10) \o Digit(n % 10)

\* str.padStart(2, '0')
padStart2(str) == IF Len(str) < 2 THEN "0" \o str ELSE str

\* YYYY-MM-DD of the tick's Date
currentDate(now) ==
  String(now.year) \o "-" \o padStart2(String(now.month + 1)) \o "-"
    \o padStart2(String(now.date))

\* toLocaleTimeString('en-GB', 2-digit hour and minute): HH:mm
currentTime(now) ==
  padStart2(String(now.hours)) \o ":" \o padStart2(String(now.minutes))

\* The well-formed HH:mm values: the minutes of a day
WellFormedTimes ==
  {padStart2(String(h)) \o ":" \o padStart2(String(m)) : h \in 0..23, m \in 0..59}

\* The well-formed YYYY-MM-DD values of the year the clock is in
WellFormedDates ==
  {String(2024) \o "-" \o padStart2(String(m)) \o "-" \o padStart2(String(d)) :
     m \in 1..12, d \in 1..31}
    \ {String(2024) \o "-" \o md :
         md \in {"02-30", "02-31", "04-31", "06-31", "09-31", "11-31"}}

\* the task's date and time are well-formed values
WellFormed(task) ==
  task.date \in WellFormedDates /\ task.time \in WellFormedTimes

\* ---------------------------------------------------------------- the scan

\* !task.notified, of an optional field
Notified(task) == "notified" \in DOMAIN task /\ task.notified

\* Faulty variant of IsNewlyDue: the notified flag is not looked at
IsNewlyDue_ignoresNotified(task, date, time) ==
  /\ ~task.completed
  /\ task.date = date
  /\ task.time = time

\* Faulty variant of IsNewlyDue: only the date is compared
IsNewlyDue_ignoresTime(task, date, time) ==
  /\ ~task.completed
  /\ ~Notified(task)
  /\ task.date = date

\* the match predicate of the scan
IsNewlyDue(task, date, time) ==
  /\ ~task.completed
  /\ ~Notified(task)
  /\ task.date = date
  /\ task.time = time

\* Faulty variant of markNotified: the task is completed whatever the setting
markNotified_alwaysCompletes(task, set) ==
  [notified |-> TRUE, completed |-> TRUE] @@ task

\* { ...task, notified: true, completed: autoComplete ? true : task.completed }
markNotified(task, set) ==
  [notified |-> TRUE,
   completed |-> IF set.autoComplete THEN TRUE ELSE task.completed] @@ task

\* an onEnd of the scan, () => setIsAlarmRinging(false), ran between a and b
AlarmCallbackRan(a, b) ==
  \E s \in 1..Len(a.sessions) :
     /\ a.sessions[s].onEnd = "setIsAlarmRinging"
     /\ b.sessions[s].onEndCalls > a.sessions[s].onEndCalls

\* isAlarmRinging after player code took the service from a to b
RingingAfter(ringing, a, b) == IF AlarmCallbackRan(a, b) THEN FALSE ELSE ringing

\* Faulty variant of mapTask: a matched task is moved to the head of the list
mapTask_dueFirst(st, task, set, date, time) ==
  IF IsNewlyDue(task, date, time)
    THEN LET a == playNotification(st.audioService, set, task.title,
                                   "setIsAlarmRinging")
         IN  [audioService |-> a,
              isAlarmRinging |-> RingingAfter(TRUE, st.audioService, a),
              updatedTasks |-> <<markNotified(task, set)>> \o st.updatedTasks,
              hasChanges |-> TRUE]
    ELSE [st EXCEPT !.updatedTasks = Append(@, task)]

\* The map callback of the setTasks updater on one task.  st carries what the
\* callback reads and writes: the player, the ringing flag, the mapped tasks so
\* far and hasChanges.
mapTask(st, task, set, date, time) ==
  IF IsNewlyDue(task, date, time)
    THEN LET a == playNotification(st.audioService, set, task.title,
                                   "setIsAlarmRinging")
         IN  [audioService |-> a,
              isAlarmRinging |-> RingingAfter(TRUE, st.audioService, a),
              updatedTasks |-> Append(st.updatedTasks, markNotified(task, set)),
              hasChanges |-> TRUE]
    ELSE [st EXCEPT !.updatedTasks = Append(@, task)]

\* Faulty variant of mapTasks: every match writes the collection it read at the start
\* of the tick with its own task patched, so that the last write wins
RECURSIVE mapTasks_lastWins(_, _, _, _, _, _)
mapTasks_lastWins(st, currentTasks, i, set, date, time) ==
  IF i > Len(currentTasks) THEN st
  ELSE LET r == mapTask(st, currentTasks[i], set, date, time)
           w == IF IsNewlyDue(currentTasks[i], date, time)
                  THEN [r EXCEPT !.updatedTasks =
                          Append(SubSeq(currentTasks, 1, i - 1),
                                 markNotified(currentTasks[i], set))]
                  ELSE r
       IN  mapTasks_lastWins(w, currentTasks, i + 1, set, date, time)

\* Faulty variant of mapTasks: a date or time that is not well-formed raises,
\* the updater fails and the collection stays as it was
RECURSIVE mapTasks_raises(_, _, _, _, _, _)
mapTasks_raises(st, currentTasks, i, set, date, time) ==
  IF i > Len(currentTasks) THEN st
  ELSE IF ~WellFormed(currentTasks[i]) THEN [st EXCEPT !.hasChanges = FALSE]
  ELSE mapTasks_raises(mapTask(st, currentTasks[i], set, date, time),
                       currentTasks, i + 1, set, date, time)

\* currentTasks.map(...) from index i on
RECURSIVE mapTasks(_, _, _, _, _, _)
mapTasks(st, currentTasks, i, set, date, time) ==
  IF i > Len(currentTasks) THEN st
  ELSE mapTasks(mapTask(st, currentTasks[i], set, date, time),
                currentTasks, i + 1, set, date, time)

\* Faulty variant of scan: the mapped copy is returned whether or not a task
\* matched, so every tick stores a new collection
scan_alwaysCopies(a, ringing, currentTasks, set, now) ==
  LET st == mapTasks([audioService |-> a, isAlarmRinging |-> ringing,
                      updatedTasks |-> <<>>, hasChanges |-> FALSE],
                     currentTasks, 1, set, currentDate(now), currentTime(now))
  IN  [audioService |-> st.audioService,
       isAlarmRinging |-> st.isAlarmRinging,
       tasks |-> st.updatedTasks,
       hasChanges |-> TRUE]

\* the interval callback: one scan of the collection at Date now
scan(a, ringing, currentTasks, set, now) ==
  LET st == mapTasks([audioService |-> a, isAlarmRinging |-> ringing,
                      updatedTasks |-> <<>>, hasChanges |-> FALSE],
                     currentTasks, 1, set, currentDate(now), currentTime(now))
  IN  [audioService |-> st.audioService,
       isAlarmRinging |-> st.isAlarmRinging,
       tasks |-> IF st.hasChanges THEN st.updatedTasks ELSE currentTasks,
       hasChanges |-> st.hasChanges]

\* ---------------------------------------------------------------- effects on the tasks

(***************************************************************************)
(* app holds                                                               *)
(*   editingTask  <<>> (null) or <<task>>: the task object handed to the   *)
(*                edit modal when it was opened                            *)
(*   currentUser  a user is signed in (and the sync service initialized)   *)
(*   saveTimeouts the armed timeouts of the save effect, each with the     *)
(*                tasks and currentUser of the render that armed it        *)
(*   cloud        <<>> or <<tasks>>: the tasks of the user's document      *)
(*   replacements, edits  how many lists the subscription has delivered    *)
(*                and how many edits were saved                            *)
(***************************************************************************)
NewApp ==
  [editingTask |-> <<>>, currentUser |-> FALSE,
   saveTimeouts |-> {[tasks |-> <<>>, currentUser |-> FALSE]},
   cloud |-> <<>>, replacements |-> 0, edits |-> 0]

\* Faulty variant of saveEffect: the previous timeout is not cleared
saveEffect_noCleanup(ap, oldTasks, newTasks, user) ==
  [ap EXCEPT !.saveTimeouts =
     @ \cup {[tasks |-> newTasks, currentUser |-> user]}]

\* The save effect after a render with new tasks or a new user: the cleanup
\* of the previous run clears its timeout, and a timeout is armed
saveEffect(ap, oldTasks, newTasks, user) ==
  [ap EXCEPT !.saveTimeouts =
     (@ \ {[tasks |-> oldTasks, currentUser |-> ap.currentUser]})
       \cup {[tasks |-> newTasks, currentUser |-> user]}]

\* ---------------------------------------------------------------- actions

vars == <<audioService, tasks, settings, isAlarmRinging, clock, app, lastOp>>

appVars == <<tasks, settings, clock, app>>

Op(name, s) == [op |-> name, sess |-> s]

TickOp(matched) == [op |-> "tick", sess |-> 0, due |-> matched]

\* What a handler of the player leaves of the App state: an onEnd of the scan,
\* when it runs, clears the ringing flag
PlayerFrame ==
  /\ isAlarmRinging' = RingingAfter(isAlarmRinging, audioService, audioService')
  /\ UNCHANGED appVars

\* Settings a caller may pass: customSoundData only matters in custom mode
StartSettings ==
  {set \in AppSettings :
     /\ ~set.autoComplete
     /\ set.soundMode # "custom" => set.customSoundData = ""}

\* the settings preview starts an alert
Start(set) ==
  /\ Len(audioService.sessions) < MaxSessions
  /\ audioService' = playNotification(audioService, set, "Test Notification",
                                      "setIsPreviewing")
  /\ lastOp' = Op("playNotification", Len(audioService.sessions) + 1)
  /\ PlayerFrame

\* the settings preview stops the alert
Stop ==
  /\ audioService' = stop(audioService)
  /\ lastOp' = Op("stop", audioService.onPlaybackEnd)
  /\ PlayerFrame

\* the settings modal drops the cached buffer after an upload
ClearCache ==
  /\ audioService.customAudioBuffer # ""
  /\ audioService' = clearCustomCache(audioService)
  /\ lastOp' = Op("clearCustomCache", 0)
  /\ PlayerFrame

\* the browser's autoplay policy starts to let audio play (a user gesture)
UserGesture ==
  /\ ~audioService.userActivation
  /\ audioService' = [audioService EXCEPT !.userActivation = TRUE]
  /\ lastOp' = Op("gesture", 0)
  /\ PlayerFrame

\* audioContext.resume() resolves and playNotification continues
ResumeDone(p) ==
  /\ p \in audioService.pending /\ p.stage = "resume"
  /\ audioService' =
       afterResume([audioService EXCEPT !.pending = @ \ {p},
                                        !.audioContext = "running"],
                   p.sess, p.settings)
  /\ lastOp' = Op("resumed", p.sess)
  /\ PlayerFrame

\* fetch and decodeAudioData settle and playCustom continues
DecodeDone(p) ==
  /\ p \in audioService.pending /\ p.stage = "decode"
  /\ LET a == [audioService EXCEPT !.pending = @ \ {p}]
         data == p.settings.customSoundData
     IN  IF Decodable(data)
           THEN /\ audioService' =
                     startBuffer([a EXCEPT !.customAudioBuffer = data], p.sess,
                                 p.settings.audioLoop)
                /\ lastOp' = Op("decoded", p.sess)
           ELSE /\ audioService' = settle(playCustomCatch(a, p.sess), p.sess)
                /\ lastOp' = Op("decodeFailed", p.sess)
  /\ PlayerFrame

\* the ceiling timeout fires: () => this.stop()
CeilingFire(t) ==
  /\ t \in audioService.timers /\ t.kind = "ceiling"
  /\ audioService' = stop([audioService EXCEPT !.timers = @ \ {t}])
  /\ lastOp' = Op("ceiling", t.sess)
  /\ PlayerFrame

\* the bell interval fires: () => this.playBellSound(volume)
BellIntervalFire(t) ==
  /\ t \in audioService.timers /\ t.kind = "bell"
  /\ audioService' = playBellSound(audioService, t.sess)
  /\ lastOp' = Op("bellInterval", t.sess)
  /\ PlayerFrame

\* the speakLoop timeout fires: speakLoop()
SpeakLoopFire(t) ==
  /\ t \in audioService.timers /\ t.kind = "speakLoop"
  /\ audioService' = speakText([audioService EXCEPT !.timers = @ \ {t}], t.sess,
                               "speakLoop")
  /\ lastOp' = Op("speakLoop", t.sess)
  /\ PlayerFrame

\* the utterance is spoken to its end; its 'end' event is queued
UtteranceEnds ==
  /\ audioService.utterance # NoUtterance
  /\ audioService' = [audioService EXCEPT !.utterance = NoUtterance,
                                          !.endEvents = @ \cup {audioService.utterance}]
  /\ lastOp' = Op("utteranceEnds", audioService.utterance.sess)
  /\ PlayerFrame

\* the queued 'end' event runs utterance.onend
EndEventDelivered(u) ==
  /\ u \in audioService.endEvents
  /\ audioService' =
       utteranceOnEnd([audioService EXCEPT !.endEvents = @ \ {u}], u.sess, u.onEnd)
  /\ lastOp' = Op("utteranceOnEnd", u.sess)
  /\ PlayerFrame

\* an oscillator reaches its stop time, a buffer played once reaches its end
NodeEnds(n) ==
  /\ n \in audioService.nodes /\ ~n.loop
  /\ audioService' = [audioService EXCEPT !.nodes = @ \ {n}]
  /\ lastOp' = Op("nodeEnds", n.sess)
  /\ PlayerFrame

\* what the browser does to the player between two calls
PlayerEvent ==
  \/ \E p \in audioService.pending : ResumeDone(p)
  \/ \E p \in audioService.pending : DecodeDone(p)
  \/ \E t \in audioService.timers : CeilingFire(t)
  \/ \E t \in audioService.timers : BellIntervalFire(t)
  \/ \E t \in audioService.timers : SpeakLoopFire(t)
  \/ UtteranceEnds
  \/ \E u \in audioService.endEvents : EndEventDelivered(u)
  \/ \E n \in audioService.nodes : NodeEnds(n)

\* ---------------------------------------------------------------- the player alone

InitApp ==
  /\ tasks = <<>>
  /\ settings = DEFAULT_SETTINGS
  /\ isAlarmRinging = FALSE
  /\ clock = 1
  /\ app = NewApp

InitPlayer ==
  /\ audioService = NewAudioService
  /\ lastOp = Op("new", 0)
  /\ InitApp

NextPlayer ==
  \/ \E set \in StartSettings : Start(set)
  \/ Stop
  \/ ClearCache
  \/ UserGesture
  \/ PlayerEvent

\* The service driven by the settings preview and by the browser
SpecPlayer == InitPlayer /\ [][NextPlayer]_vars

\* ---------------------------------------------------------------- the app

\* The schedules the user gives to new tasks
Schedules ==
  { [date |-> "2024-01-09", time |-> "09:00"],
    [date |-> "2024-01-09", time |-> "09:01"],
    [date |-> "2024-01-10", time |-> "09:00"] }

\* The settings a behaviour of the app runs with
SettingsMenu ==
  { DEFAULT_SETTINGS,
    [autoComplete |-> TRUE, soundMode |-> "tts", audioDuration |-> 30,
     audioLoop |-> FALSE, customSoundData |-> ""],
    [autoComplete |-> FALSE, soundMode |-> "tts", audioDuration |-> 0,
     audioLoop |-> TRUE, customSoundData |-> ""],
    [autoComplete |-> FALSE, soundMode |-> "custom", audioDuration |-> 0,
     audioLoop |-> TRUE, customSoundData |-> "dataA"] }

\* The title the user gives to the task with this id
TitleOf(id) == "task " \o String(id)

\* submitNewTask: append a task
AddTask(sched) ==
  /\ Len(tasks) < MaxTasks
  /\ LET id == Len(tasks) + 1
     IN  tasks' = Append(tasks, [id |-> id, title |-> TitleOf(id),
                                 time |-> sched.time, date |-> sched.date,
                                 priority |-> "medium", completed |-> FALSE])
  /\ app' = saveEffect(app, tasks, tasks', app.currentUser)
  /\ lastOp' = Op("submitNewTask", 0)
  /\ UNCHANGED <<audioService, settings, isAlarmRinging, clock>>

\* stopAlarm
StopAlarm ==
  /\ isAlarmRinging
  /\ audioService' = stop(audioService)
  /\ isAlarmRinging' = FALSE
  /\ lastOp' = Op("stop", audioService.onPlaybackEnd)
  /\ UNCHANGED appVars

\* toggleTask on the task at index i
ToggleTask(i) ==
  /\ i \in 1..Len(tasks)
  /\ LET a == IF isAlarmRinging THEN stop(audioService) ELSE audioService
         \* playSuccessSound needs the context when the task becomes completed;
         \* what it throws leaves the map callback and the handler
         b == IF ~tasks[i].completed THEN getContext(a) ELSE a
     IN  /\ audioService' = [b EXCEPT !.thrown = FALSE]
         /\ tasks' = IF b.thrown THEN tasks
                      ELSE [tasks EXCEPT ![i].completed = ~@]
         /\ app' = IF b.thrown THEN app
                    ELSE saveEffect(app, tasks, tasks', app.currentUser)
  /\ isAlarmRinging' = FALSE
  /\ lastOp' = Op("toggleTask", 0)
  /\ UNCHANGED <<settings, clock>>

\* the setInterval callback of the Timer Logic effect
Tick ==
  /\ LET r == scan(audioService, isAlarmRinging, tasks, settings, Instants[clock])
     IN  /\ audioService' = r.audioService
         /\ isAlarmRinging' = r.isAlarmRinging
         /\ tasks' = r.tasks
         /\ app' = IF r.hasChanges
                     THEN saveEffect(app, tasks, r.tasks, app.currentUser)
                     ELSE app
         /\ lastOp' = TickOp(Len(r.audioService.sessions) - Len(audioService.sessions))
  /\ UNCHANGED <<settings, clock>>

\* a minute (or, at the end, a day) passes
ClockAdvance ==
  /\ clock < Len(Instants)
  /\ clock' = clock + 1
  /\ lastOp' = Op("clock", 0)
  /\ UNCHANGED <<audioService, tasks, settings, isAlarmRinging, app>>

Init ==
  /\ audioService = NewAudioService
  /\ lastOp = Op("new", 0)
  /\ tasks = <<>>
  /\ settings \in SettingsMenu
  /\ isAlarmRinging = FALSE
  /\ clock = 1
  /\ app = NewApp

Next ==
  \/ \E sched \in Schedules : AddTask(sched)
  \/ \E i \in 1..Len(tasks) : ToggleTask(i)
  \/ StopAlarm
  \/ Tick
  \/ ClockAdvance
  \/ PlayerEvent

\* The app: the scan, the user's task operations and the player under it
Spec == Init /\ [][Next]_vars

NextScan ==
  \/ \E sched \in Schedules : AddTask(sched)
  \/ \E i \in 1..Len(tasks) : ToggleTask(i)
  \/ StopAlarm
  \/ Tick
  \/ ClockAdvance

\* The scan and the handlers that write the task collection.  The browser
\* events of the player touch neither the tasks nor the list of started
\* sessions, and are left to Spec and SpecPlayer.
SpecScan == Init /\ [][NextScan]_vars

\* ---------------------------------------------------------------- one capped, looping session

\* A context may exist before the first alert: playSuccessSound creates it
InitCeiling ==
  /\ \E ctx \in {"none", "suspended", "running"} :
       audioService = [NewAudioService EXCEPT !.audioContext = ctx]
  /\ lastOp = Op("new", 0)
  /\ InitApp

\* The one session: looping, with audioDuration > 0
CeilingSettings ==
  {set \in StartSettings : set.audioLoop /\ set.audioDuration > 0}

StartOnce(set) ==
  /\ audioService.sessions = <<>>
  /\ Start(set)

NextCeiling ==
  \/ \E set \in CeilingSettings : StartOnce(set)
  \/ UserGesture
  \/ PlayerEvent

\* A single alert that nobody stops: only its own timers and events act on it
SpecCeiling == InitCeiling /\ [][NextCeiling]_vars

\* ---------------------------------------------------------------- editing a task

\* onEdit={setEditingTask}: the edit modal opens on the task at index i
OpenEdit(i) ==
  /\ i \in 1..Len(tasks)
  /\ app.editingTask = <<>>
  /\ app' = [app EXCEPT !.editingTask = <<tasks[i]>>]
  /\ lastOp' = Op("setEditingTask", 0)
  /\ UNCHANGED <<audioService, tasks, settings, isAlarmRinging, clock>>

\* EditModal.handleSubmit with the schedule of the form, and the onSave of App:
\* onSave({ ...task, title, time, date, priority }), task being the object the
\* modal was opened on
SaveEdit(sched) ==
  /\ app.editingTask # <<>>
  /\ app.edits < MaxEdits
  /\ LET updatedTask == [app.editingTask[1] EXCEPT !.time = sched.time,
                                                    !.date = sched.date]
     IN  /\ tasks' = [i \in 1..Len(tasks) |->
                        IF tasks[i].id = updatedTask.id THEN updatedTask
                        ELSE tasks[i]]
         /\ lastOp' = [op |-> "onSave", sess |-> 0, id |-> updatedTask.id]
  /\ app' = [saveEffect(app, tasks, tasks', app.currentUser)
               EXCEPT !.editingTask = <<>>, !.edits = @ + 1]
  /\ UNCHANGED <<audioService, settings, isAlarmRinging, clock>>

\* the edit modal is closed without saving
CloseEdit ==
  /\ app.editingTask # <<>>
  /\ app' = [app EXCEPT !.editingTask = <<>>]
  /\ lastOp' = Op("onClose", 0)
  /\ UNCHANGED <<audioService, tasks, settings, isAlarmRinging, clock>>

NextEdit ==
  \/ \E sched \in Schedules : AddTask(sched)
  \/ Tick
  \/ ClockAdvance
  \/ \E i \in 1..Len(tasks) : OpenEdit(i)
  \/ \E sched \in Schedules : SaveEdit(sched)
  \/ CloseEdit

\* The scan while the user adds and edits tasks
SpecEdit == Init /\ [][NextEdit]_vars

\* ---------------------------------------------------------------- cloud sync

\* onAuthStateChanged reports a user: setCurrentUser(user).  The save effect
\* depends on currentUser and runs again.
SignIn ==
  /\ ~app.currentUser
  /\ app' = [saveEffect(app, tasks, tasks, TRUE) EXCEPT !.currentUser = TRUE]
  /\ lastOp' = Op("signIn", 0)
  /\ UNCHANGED <<audioService, tasks, settings, isAlarmRinging, clock>>

\* A timeout of the save effect fires: the tasks of its render are saved if
\* that render had a user
SaveTimeoutFire(t) ==
  /\ t \in app.saveTimeouts
  /\ app' = [app EXCEPT !.saveTimeouts = @ \ {t},
                        !.cloud = IF t.currentUser THEN <<t.tasks>> ELSE @]
  /\ lastOp' = IF t.currentUser
                 THEN [op |-> "saveTasks", sess |-> 0, tasks |-> t.tasks,
                       before |-> app.cloud]
                 ELSE Op("saveSkipped", 0)
  /\ UNCHANGED <<audioService, tasks, settings, isAlarmRinging, clock>>

\* Lists that another device has written to the user's document
RemoteLists ==
  { <<>>,
    << [id |-> 1, title |-> "task 1", time |-> "09:00", date |-> "2024-01-09",
        priority |-> "medium", completed |-> FALSE] >>,
    << [id |-> 1, title |-> "task 1", time |-> "09:01", date |-> "2024-01-09",
        priority |-> "high", completed |-> FALSE, notified |-> TRUE] >>,
    << [id |-> 2, title |-> "task 2", time |-> "09:01", date |-> "2024-01-09",
        priority |-> "low", completed |-> FALSE],
       [id |-> 1, title |-> "task 1", time |-> "09:00", date |-> "2024-01-09",
        priority |-> "medium", completed |-> FALSE] >> }

\* What a snapshot of the document can carry: another device's list, or the
\* list this app saved
Snapshots == RemoteLists \cup {app.cloud[i] : i \in 1..Len(app.cloud)}

\* Faulty variant of OnTasksReceived: local tasks that the received list lacks
\* are kept
OnTasksReceived_merges(cloudTasks) ==
  /\ app.currentUser
  /\ app.replacements < MaxReplacements
  /\ tasks' = cloudTasks \o
                SelectSeq(tasks, LAMBDA l :
                            \A i \in 1..Len(cloudTasks) : cloudTasks[i].id # l.id)
  /\ app' = [saveEffect(app, tasks, tasks', app.currentUser)
               EXCEPT !.replacements = @ + 1]
  /\ lastOp' = [op |-> "onTasksReceived", sess |-> 0, tasks |-> cloudTasks]
  /\ UNCHANGED <<audioService, settings, isAlarmRinging, clock>>

\* The snapshot listener: setTasks(cloudTasks)
OnTasksReceived(cloudTasks) ==
  /\ app.currentUser
  /\ app.replacements < MaxReplacements
  /\ tasks' = cloudTasks
  /\ app' = [saveEffect(app, tasks, cloudTasks, app.currentUser)
               EXCEPT !.replacements = @ + 1]
  /\ lastOp' = [op |-> "onTasksReceived", sess |-> 0, tasks |-> cloudTasks]
  /\ UNCHANGED <<audioService, settings, isAlarmRinging, clock>>

InitSync ==
  /\ Init
  /\ settings = DEFAULT_SETTINGS

NextSync ==
  \/ \E i \in 1..Len(tasks) : ToggleTask(i)
  \/ Tick
  \/ ClockAdvance
  \/ SignIn
  \/ \E t \in app.saveTimeouts : SaveTimeoutFire(t)
  \/ \E cloudTasks \in Snapshots : OnTasksReceived(cloudTasks)

\* The task collection between the user, the scan and the cloud; the tasks
\* come from the cloud
SpecSync == InitSync /\ [][NextSync]_vars

\* ---------------------------------------------------------------- one session, any browser

\* The browser may lack speech synthesis or the AudioContext constructor; a
\* context that exists was constructed
InitSession ==
  /\ \E ctx \in {"none", "suspended", "running"}, speech, avail \in BOOLEAN :
       /\ ctx # "none" => avail
       /\ audioService = [NewAudioService EXCEPT !.audioContext = ctx,
                                                 !.speechSynthesis = speech,
                                                 !.contextAvailable = avail]
  /\ lastOp = Op("new", 0)
  /\ InitApp

NextSession ==
  \/ \E set \in StartSettings : StartOnce(set)
  \/ Stop
  \/ UserGesture
  \/ PlayerEvent

\* One alert, with any settings, that may be stopped at any time
SpecSession == InitSession /\ [][NextSession]_vars

\* ---------------------------------------------------------------- replacing the custom sound

\* The files the user uploads, both decodable
Uploads == {"dataA", "dataB"}

\* Custom mode with a first file uploaded
InitCache ==
  /\ \E ctx \in {"none", "suspended", "running"} :
       audioService = [NewAudioService EXCEPT !.audioContext = ctx]
  /\ lastOp = Op("new", 0)
  /\ tasks = <<>>
  /\ settings \in {set \in AppSettings :
                      /\ set.soundMode = "custom" /\ set.customSoundData = "dataA"
                      /\ ~set.autoComplete}
  /\ isAlarmRinging = FALSE
  /\ clock = 1
  /\ app = NewApp

\* togglePreview, not previewing: play the alert with the current settings
PreviewStart ==
  /\ Len(audioService.sessions) < MaxSessions
  /\ audioService' = playNotification(audioService, settings, "Test Notification",
                                      "setIsPreviewing")
  /\ lastOp' = Op("playNotification", Len(audioService.sessions) + 1)
  /\ PlayerFrame

\* handleFileChange, reader.onload: drop the cached buffer and save the new
\* file in the settings
UploadFile(data) ==
  /\ data # settings.customSoundData
  /\ audioService' = clearCustomCache(audioService)
  /\ settings' = [settings EXCEPT !.customSoundData = data]
  /\ lastOp' = Op("handleFileChange", 0)
  /\ isAlarmRinging' = isAlarmRinging
  /\ UNCHANGED <<tasks, clock, app>>

\* handleModeChange: another sound mode is saved in the settings
ChangeMode(mode) ==
  /\ mode # settings.soundMode
  /\ settings' = [settings EXCEPT !.soundMode = mode]
  /\ lastOp' = Op("handleModeChange", 0)
  /\ UNCHANGED <<audioService, tasks, isAlarmRinging, clock, app>>

NextCache ==
  \/ PreviewStart
  \/ Stop
  \/ \E mode \in SoundModes : ChangeMode(mode)
  \/ \E data \in Uploads : UploadFile(data)
  \/ UserGesture
  \/ PlayerEvent

\* The settings modal: mode changes, uploads and previews
SpecCache == InitCache /\ [][NextCache]_vars

\* ---------------------------------------------------------------- two calls in succession

StartFirst(set) ==
  /\ audioService.sessions = <<>>
  /\ Start(set)

\* the second call follows the first with nothing in between, and its
\* settings select another branch
StartSecond(set) ==
  /\ Len(audioService.sessions) = 1
  /\ lastOp.op = "playNotification"
  /\ soundBranch(set) # audioService.sessions[1].mode
  /\ Start(set)

NextSuccession ==
  \/ \E set \in StartSettings : StartFirst(set)
  \/ \E set \in StartSettings : StartSecond(set)
  \/ UserGesture
  \/ PlayerEvent

\* playNotification called twice in a row, and what the browser does then
SpecSuccession == InitCeiling /\ [][NextSuccession]_vars

\* ---------------------------------------------------------------- the app's own writes come back

\* saveTasks has written the document (tasks and a new lastUpdated), and the
\* snapshot listener is called with the written tasks: setTasks(cloudTasks),
\* cloudTasks being a new array
OwnSnapshot ==
  /\ lastOp.op = "saveTasks"
  /\ app.currentUser
  /\ tasks' = app.cloud[1]
  /\ app' = saveEffect(app, tasks, tasks', app.currentUser)
  /\ lastOp' = [op |-> "onTasksReceived", sess |-> 0, tasks |-> app.cloud[1]]
  /\ UNCHANGED <<audioService, settings, isAlarmRinging, clock>>

\* the user completes a task while no task is completed: the one local change
CompleteOne(i) ==
  /\ \A j \in 1..Len(tasks) : ~tasks[j].completed
  /\ ToggleTask(i)

NextEcho ==
  \/ SignIn
  \/ \E cloudTasks \in RemoteLists : OnTasksReceived(cloudTasks)
  \/ \E i \in 1..Len(tasks) : CompleteOne(i)
  \/ Tick
  \/ ClockAdvance
  \/ \E t \in app.saveTimeouts : SaveTimeoutFire(t)
  \/ OwnSnapshot

\* Sync with finitely many changes from outside (lists of other devices, the
\* user's one change, the scan): an armed save timeout fires, and the snapshot
\* of a write is delivered
SpecEcho ==
  /\ InitSync
  /\ [][NextEcho]_vars
  /\ WF_vars(\E t \in app.saveTimeouts : SaveTimeoutFire(t))
  /\ WF_vars(OwnSnapshot)

\* ---------------------------------------------------------------- importing tasks

\* A field of a CSV line is a sequence of characters
RECURSIVE Join(_)
Join(cs) == IF cs = <<>> THEN "" ELSE Head(cs) \o Join(Tail(cs))

IsDigit(c) == c \in {"0", "1", "2", "3", "4", "5", "6", "7", "8", "9"}

\* /^\d{1,2}:\d{2}$/.test(time)
TimePattern(f) ==
  /\ Len(f) \in {4, 5}
  /\ f[Len(f) - 2] = ":"
  /\ \A k \in 1..Len(f) : k # Len(f) - 2 => IsDigit(f[k])

\* /^\d{4}-\d{2}-\d{2}$/.test(dateInput)
DatePattern(f) ==
  /\ Len(f) = 10
  /\ f[5] = "-" /\ f[8] = "-"
  /\ \A k \in 1..10 : k \notin {5, 8} => IsDigit(f[k])

\* `${h.padStart(2, '0')}:${m}`
formattedTime(f) ==
  padStart2(Join(SubSeq(f, 1, Len(f) - 3))) \o ":"
    \o Join(SubSeq(f, Len(f) - 1, Len(f)))

\* the date of the line if it has the pattern, else today
formattedDate(f, today) == IF DatePattern(f) THEN Join(f) ELSE today

\* The lines of the files the user imports: title, time, date
CsvLines ==
  { [title |-> "task A", time |-> <<"0", "9", ":", "0", "0">>,
     date |-> <<"2", "0", "2", "4", "-", "0", "1", "-", "0", "9">>],
    [title |-> "task B", time |-> <<"9", ":", "0", "1">>, date |-> <<>>],
    [title |-> "task C", time |-> <<"2", "5", ":", "9", "9">>,
     date |-> <<"2", "0", "2", "4", "-", "0", "1", "-", "0", "9">>],
    [title |-> "task D", time |-> <<"0", "9", ":", "0", "0">>,
     date |-> <<"2", "0", "2", "4", "-", "1", "3", "-", "4", "5">>],
    [title |-> "task E", time |-> <<"9", "a", "m">>, date |-> <<>>],
    [title |-> "task F", time |-> <<"0", "9", ":", "0", "1">>,
     date |-> <<"0", "9", "/", "0", "1", "/", "2", "4">>] }

\* The files: one line, or two different lines
CsvFiles ==
  {<<l>> : l \in CsvLines}
    \cup {f \in {<<l, m>> : l, m \in CsvLines} : f[1] # f[2]}

\* the loop over the lines from line i on: the valid ones become tasks
RECURSIVE parseLines(_, _, _, _)
parseLines(lines, i, today, nextId) ==
  IF i > Len(lines) THEN <<>>
  ELSE LET l == lines[i]
       IN  IF l.title # "" /\ l.time # <<>> /\ TimePattern(l.time)
             THEN <<[id |-> nextId, title |-> l.title,
                     time |-> formattedTime(l.time),
                     date |-> formattedDate(l.date, today),
                     priority |-> "medium", completed |-> FALSE]>>
                    \o parseLines(lines, i + 1, today, nextId + 1)
             ELSE parseLines(lines, i + 1, today, nextId)

\* handleImportCSV, reader.onload: append the valid lines of the file.  The
\* user imports no line twice, so that a title names one task.
ImportCSV(lines) ==
  /\ Len(tasks) + Len(lines) <= MaxTasks
  /\ \A i \in 1..Len(lines), j \in 1..Len(tasks) : lines[i].title # tasks[j].title
  /\ LET newTasks == parseLines(lines, 1, currentDate(Instants[clock]),
                                Len(tasks) + 1)
     IN  /\ tasks' = IF newTasks # <<>> THEN tasks \o newTasks ELSE tasks
         /\ app' = IF newTasks # <<>>
                     THEN saveEffect(app, tasks, tasks', app.currentUser)
                     ELSE app
  /\ lastOp' = Op("handleImportCSV", 0)
  /\ UNCHANGED <<audioService, settings, isAlarmRinging, clock>>

NextImport ==
  \/ \E lines \in CsvFiles : ImportCSV(lines)
  \/ \E i \in 1..Len(tasks) : ToggleTask(i)
  \/ Tick
  \/ ClockAdvance

\* The scan over tasks imported from CSV files, whose dates and times are
\* checked by pattern only
SpecImport == Init /\ [][NextImport]_vars

\* ---------------------------------------------------------------- one session without loop, left alone

\* The one session: audioLoop = false
OnceSettings == {set \in StartSettings : ~set.audioLoop}

\* What the browser does to a session without loop: no loop timer is armed
OnceEvent ==
  \/ \E p \in audioService.pending : ResumeDone(p)
  \/ \E p \in audioService.pending : DecodeDone(p)
  \/ \E t \in audioService.timers : CeilingFire(t)
  \/ UtteranceEnds
  \/ \E u \in audioService.endEvents : EndEventDelivered(u)
  \/ \E n \in audioService.nodes : NodeEnds(n)

NextOnce ==
  \/ \E set \in OnceSettings : StartOnce(set)
  \/ UserGesture
  \/ OnceEvent

\* A single alert without loop that nobody stops.  The browser settles every
\* promise, fires every armed timer, ends every sound that does not loop and
\* delivers every queued event.
SpecOnce ==
  /\ InitCeiling
  /\ [][NextOnce]_vars
  /\ WF_vars(\E p \in audioService.pending : ResumeDone(p))
  /\ WF_vars(\E p \in audioService.pending : DecodeDone(p))
  /\ WF_vars(\E t \in audioService.timers : CeilingFire(t))
  /\ WF_vars(UtteranceEnds)
  /\ WF_vars(\E u \in audioService.endEvents : EndEventDelivered(u))
  /\ WF_vars(\E n \in audioService.nodes : NodeEnds(n))

\* ---------------------------------------------------------------- claims

\* The local date and minute of each instant, as a calendar and a 24-hour
\* clock show them
InstantText ==
  << [date |-> "2024-01-09", time |-> "09:00"],
     [date |-> "2024-01-09", time |-> "09:01"],
     [date |-> "2024-01-10", time |-> "09:00"] >>

\* playNotification calls made so far with this message
StartsIn(a, title) ==
  Cardinality({s \in 1..Len(a.sessions) : a.sessions[s].title = title})

\* "newly due" in the words of the specification, at clock index c
ClaimDue(task, c) ==
  /\ task.completed = FALSE
  /\ ~Notified(task)
  /\ task.date = InstantText[c].date
  /\ task.time = InstantText[c].time

\* The tone intervals, speech chains and buffer sources that are active
ActiveSounds(a) ==
  {[sess |-> t.sess, what |-> "tone interval"] : t \in {x \in a.timers : x.kind = "bell"}}
    \cup {[sess |-> t.sess, what |-> "speech chain"] :
            t \in {x \in a.timers : x.kind = "speakLoop"}}
    \cup {[sess |-> u.sess, what |-> "speech chain"] :
            u \in {x \in {a.utterance} : x # NoUtterance}}
    \cup {[sess |-> n.sess, what |-> "buffer source"] :
            n \in {x \in a.nodes : x.kind = "buffer"}}

\* stop() has returned and playNotification has not been called since: only
\* stop() clears the registration, and every caller registers an onEnd
Silenced(a) == a.sessions # <<>> /\ a.onPlaybackEnd = 0

\* C1: every task has the player started for it at most once, over any number
\* of ticks, and once a task is notified no later step starts the player for it.
C1_AtMostOnceAlert ==
  /\ [](\A i \in 1..Len(tasks) : StartsIn(audioService, tasks[i].title) <= 1)
  /\ [][\A i \in 1..Len(tasks) :
          Notified(tasks[i]) =>
            StartsIn(audioService', tasks[i].title)
              = StartsIn(audioService, tasks[i].title)]_vars

\* C1 witness: a tick ran at the due minute of an incomplete task that was
\* already notified and alerted once, and matched nothing.
C1_Witness ==
  /\ lastOp.op = "tick" /\ lastOp.due = 0
  /\ \E i \in 1..Len(tasks) :
       /\ Notified(tasks[i]) /\ ~tasks[i].completed
       /\ tasks[i].date = InstantText[clock].date
       /\ tasks[i].time = InstantText[clock].time
       /\ StartsIn(audioService, tasks[i].title) = 1

\* C2: at most one tone interval, speech chain or buffer source is active,
\* and every active one is cancelled by the next stop().
C2_AtMostOneSession ==
  /\ Cardinality(ActiveSounds(audioService)) <= 1
  /\ ActiveSounds(stop(audioService)) = {}

\* C3: the onEnd of every session is invoked at most once in total.
C3_CallbackOnce ==
  \A s \in 1..Len(audioService.sessions) : audioService.sessions[s].onEndCalls <= 1

\* C4: from the return of stop() to the next playNotification, no sound source
\* is started, no utterance is spoken and no timer is armed.
C4_ForcedSilence ==
  [][Silenced(audioService) /\ Silenced(audioService') =>
       /\ audioService'.nodes \subseteq audioService.nodes
       /\ audioService'.timers \subseteq audioService.timers
       /\ audioService'.utterance \in {NoUtterance, audioService.utterance}]_vars

\* In SpecCeiling the one session arms its ceiling when it starts (after the
\* resume, if it waits for one) and only the firing disarms it
CeilingHasFired ==
  /\ audioService.sessions # <<>>
  /\ \A p \in audioService.pending : p.stage # "resume"
  /\ \A t \in audioService.timers : t.kind # "ceiling"

\* C5: once the ceiling timer of a looping session that nobody stops has
\* fired, the player is Idle and silent: no source, interval, utterance, timer,
\* handle or registration is left.
C5_CeilingSilences ==
  CeilingHasFired =>
    /\ audioService.nodes = {} /\ audioService.timers = {}
    /\ audioService.utterance = NoUtterance
    /\ audioService.currentSource = 0 /\ audioService.loopInterval = 0
    /\ audioService.onPlaybackEnd = 0

\* C6: a tick marks a task notified and starts the player for it if and only if
\* the task is incomplete, not notified, and its date and time are the current
\* local date and minute; every other task is left as it was.
C6_ExactMatch ==
  [][lastOp'.op = "tick" =>
       /\ Len(tasks') = Len(tasks)
       /\ \A i \in 1..Len(tasks) :
            IF ClaimDue(tasks[i], clock)
              THEN /\ Notified(tasks'[i])
                   /\ StartsIn(audioService', tasks[i].title)
                        = StartsIn(audioService, tasks[i].title) + 1
              ELSE /\ tasks'[i] = tasks[i]
                   /\ StartsIn(audioService', tasks[i].title)
                        = StartsIn(audioService, tasks[i].title)]_vars

\* C6 witness: a tick at 09:01 matched the task scheduled for 09:01 and left the
\* incomplete, unnotified task scheduled for 09:00 of the same day alone.
C6_Witness ==
  /\ lastOp.op = "tick" /\ lastOp.due = 1 /\ clock = 2
  /\ \E i, j \in 1..Len(tasks) :
       /\ tasks[i].date = "2024-01-09" /\ tasks[i].time = "09:00"
       /\ ~tasks[i].completed /\ ~Notified(tasks[i])
       /\ StartsIn(audioService, tasks[i].title) = 0
       /\ tasks[j].date = "2024-01-09" /\ tasks[j].time = "09:01"
       /\ Notified(tasks[j])
       /\ StartsIn(audioService, tasks[j].title) = 1

\* C7: whenever the scan calls playNotification for a task, the stored task
\* collection (the one the step starts from: the updater has not returned yet)
\* already holds notified = true for that task.
C7_NotifiedBeforeStart ==
  [][\A s \in (Len(audioService.sessions) + 1)..Len(audioService'.sessions) :
       audioService'.sessions[s].onEnd = "setIsAlarmRinging" =>
         \E i \in 1..Len(tasks) :
            /\ tasks[i].title = audioService'.sessions[s].title
            /\ Notified(tasks[i])]_vars

\* C8: right after any stop() call, the current-source, ceiling-timer and loop
\* handles and the onEnd registration are null, what the handles named is
\* stopped or disarmed, and a registered onEnd was invoked exactly once by the
\* call (no other onEnd was).
C8_StopPostcondition ==
  [][lastOp'.op \in {"stop", "ceiling"} =>
       /\ audioService'.currentSource = 0
       /\ audioService'.stopTimeout = 0
       /\ audioService'.loopInterval = 0
       /\ audioService'.onPlaybackEnd = 0
       /\ \A n \in audioService'.nodes : n.sess # audioService.currentSource
       /\ \A t \in audioService'.timers :
            /\ t.kind = "ceiling" => t.sess # audioService.stopTimeout
            /\ t.kind # "ceiling" => t.sess # audioService.loopInterval
       /\ audioService'.utterance = NoUtterance
       /\ \A s \in 1..Len(audioService.sessions) :
            audioService'.sessions[s].onEndCalls =
              audioService.sessions[s].onEndCalls
                + (IF s = audioService.onPlaybackEnd THEN 1 ELSE 0)]_vars

\* C8 witness: stop() was called on a session with a looping sound, and left
\* the player without handles and that session's onEnd invoked once.
C8_Witness ==
  /\ lastOp.op = "stop" /\ lastOp.sess # 0
  /\ audioService.sessions[lastOp.sess].onEndCalls = 1
  /\ audioService.currentSource = 0 /\ audioService.stopTimeout = 0
  /\ audioService.loopInterval = 0 /\ audioService.onPlaybackEnd = 0
  /\ audioService.timers = {} /\ audioService.nodes = {}

\* C9: when the fetch or decode of the custom payload of a session fails, a bell
\* tone of that session is sounding and is the current source.
C9_DecodeFailureFallback ==
  lastOp.op = "decodeFailed" =>
    /\ [sess |-> lastOp.sess, kind |-> "osc", loop |-> FALSE, data |-> ""]
         \in audioService.nodes
    /\ audioService.currentSource = lastOp.sess

\* C9 witness: a decode has failed and the fallback tone sounds.
C9_Witness ==
  /\ lastOp.op = "decodeFailed"
  /\ \E n \in audioService.nodes : n.sess = lastOp.sess /\ n.kind = "osc"

SoundOfMode(mode) ==
  CASE mode = "bell" -> {"osc", "bell"}
    [] mode = "tts" -> {"utterance", "speakLoop"}
    [] mode = "custom" -> {"buffer", "osc"}   \* "osc": the fallback tone

\* What sounds or is about to: [sess, kind] of every live node, armed loop
\* timer, spoken utterance and queued end event
Sounding(a) ==
  {[sess |-> n.sess, kind |-> n.kind] : n \in a.nodes}
    \cup {[sess |-> t.sess, kind |-> t.kind] : t \in {x \in a.timers : x.kind # "ceiling"}}
    \cup {[sess |-> u.sess, kind |-> "utterance"] :
            u \in {x \in {a.utterance} : x # NoUtterance}}

\* C11: after two playNotification calls in succession with different modes,
\* the onEnd of the first session has been invoked exactly once, everything
\* that sounds belongs to the second session and to its mode, and the onEnd of
\* the second is invoked at most once.
C11_StartOverPlaying ==
  Len(audioService.sessions) >= 2 =>
    /\ audioService.sessions[1].onEndCalls = 1
    /\ audioService.sessions[2].onEndCalls <= 1
    /\ \A x \in Sounding(audioService) :
         /\ x.sess = 2
         /\ x.kind \in SoundOfMode(audioService.sessions[2].mode)

\* C12: the tick's update of a newly due task sets completed to true exactly
\* when autoComplete is enabled; with autoComplete disabled completed keeps
\* the value it had (false, the task being due).
C12_AutoComplete ==
  [][lastOp'.op = "tick" =>
       \A i \in 1..Len(tasks) :
          ClaimDue(tasks[i], clock) =>
            /\ Notified(tasks'[i])
            /\ tasks'[i].completed = settings.autoComplete
            /\ ~settings.autoComplete => tasks'[i].completed = tasks[i].completed]_vars

\* C12 witness: with autoComplete enabled a tick has matched a task, which is
\* now notified and completed.
C12_Witness ==
  /\ lastOp.op = "tick" /\ lastOp.due >= 1 /\ settings.autoComplete
  /\ \E i \in 1..Len(tasks) :
       /\ tasks[i].date = InstantText[clock].date
       /\ tasks[i].time = InstantText[clock].time
       /\ Notified(tasks[i]) /\ tasks[i].completed

\* The player as stop() leaves it: no handle and no registration
IdlePlayer(a) ==
  /\ a.currentSource = 0 /\ a.stopTimeout = 0
  /\ a.loopInterval = 0 /\ a.onPlaybackEnd = 0

\* C13: stop() on an Idle player invokes no callback, arms no timer, starts no
\* sound and leaves the player Idle; and in every state a second stop() changes
\* nothing that the first left.
C13_StopIdempotent ==
  /\ [](stop(stop(audioService)) = stop(audioService))
  /\ [][lastOp'.op = "stop" /\ IdlePlayer(audioService) =>
          /\ audioService'.sessions = audioService.sessions
          /\ audioService'.timers \subseteq audioService.timers
          /\ audioService'.nodes \subseteq audioService.nodes
          /\ audioService'.utterance \in {NoUtterance, audioService.utterance}
          /\ audioService'.pending = audioService.pending
          /\ IdlePlayer(audioService')]_vars

\* C13 witness: stop() was called with nothing registered, after a session
\* that an earlier stop() had ended; the player is Idle.
C13_Witness ==
  /\ lastOp.op = "stop" /\ lastOp.sess = 0
  /\ IdlePlayer(audioService)
  /\ Len(audioService.sessions) >= 1
  /\ \A s \in 1..Len(audioService.sessions) : audioService.sessions[s].onEndCalls = 1

\* C14: every armed save timeout is the one of the last change (a change
\* clears the timeout of the change before it), so a burst ends in one push;
\* the push carries the collection as of the last change and leaves no timeout
\* armed.
C14_DebouncedPush ==
  /\ [](\A t \in app.saveTimeouts :
          t.tasks = tasks /\ t.currentUser = app.currentUser)
  /\ [](Cardinality(app.saveTimeouts) <= 1)
  /\ [][lastOp'.op = "saveTasks" =>
          /\ app.currentUser
          /\ lastOp'.tasks = tasks
          /\ app'.cloud = <<tasks>>
          /\ app'.saveTimeouts = {}]_vars

\* C14 witness: a list was received and a task of it toggled, two changes,
\* and the first push to the user's document carries the outcome of both.
C14_Witness ==
  /\ lastOp.op = "saveTasks"
  /\ lastOp.before = <<>>
  /\ app.replacements = 1
  /\ \E i \in 1..Len(lastOp.tasks) :
       lastOp.tasks[i].completed /\ ~Notified(lastOp.tasks[i])
  /\ app.saveTimeouts = {}

\* C18: a list delivered by the remote source becomes the task collection as
\* it is, without merge, at any point between ticks; a tick that follows
\* evaluates the due predicate on the delivered list.
C18_RemoteReplacement ==
  /\ [][lastOp'.op = "onTasksReceived" => tasks' = lastOp'.tasks]_vars
  /\ [][lastOp.op = "onTasksReceived" /\ lastOp'.op = "tick" =>
          /\ Len(tasks') = Len(lastOp.tasks)
          /\ \A i \in 1..Len(lastOp.tasks) :
               IF ClaimDue(lastOp.tasks[i], clock)
                 THEN /\ Notified(tasks'[i])
                      /\ StartsIn(audioService', lastOp.tasks[i].title)
                           = StartsIn(audioService, lastOp.tasks[i].title) + 1
                 ELSE /\ tasks'[i] = lastOp.tasks[i]
                      /\ StartsIn(audioService', lastOp.tasks[i].title)
                           = StartsIn(audioService, lastOp.tasks[i].title)]_vars

\* C18 witness: a list replaced a collection of another length, and the tick
\* after it has matched one task of the new list and left the other alone.
C18_Witness ==
  /\ lastOp.op = "tick" /\ lastOp.due = 1
  /\ app.replacements >= 1
  /\ Len(tasks) = 2
  /\ \E i, j \in 1..2 : Notified(tasks[i]) /\ ~Notified(tasks[j])

\* C15: where the payload only changes through an upload, which clears the
\* cache, every buffer source plays the buffer decoded from the payload that
\* was passed to its playNotification call.
C15_CacheInvalidation ==
  \A n \in audioService.nodes :
     n.kind = "buffer" => n.data = audioService.sessions[n.sess].data

\* C16: no playNotification call ends in a rejected promise (or throws),
\* whatever the browser lacks and whatever the payload.
C16_FailSoftStart ==
  audioService.rejected = {} /\ ~audioService.thrown

\* The one session is a tts session in a browser without speech synthesis
SpeechMissing ==
  /\ ~audioService.speechSynthesis
  /\ audioService.sessions # <<>>
  /\ audioService.sessions[1].mode = "tts"

\* C17: without speech synthesis a tts session makes no sound and its onEnd is
\* invoked at most once; the ceiling timer, when it fires on the live session,
\* runs stop() and invokes onEnd once; an explicit stop() of the live session
\* invokes onEnd once and leaves no ceiling timer armed.
C17_MissingSpeech ==
  /\ [](SpeechMissing =>
          /\ Sounding(audioService) = {}
          /\ audioService.sessions[1].onEndCalls <= 1)
  /\ [][SpeechMissing /\ audioService.onPlaybackEnd = 1
           /\ lastOp'.op \in {"ceiling", "stop"} =>
          /\ audioService'.sessions[1].onEndCalls = 1
          /\ IdlePlayer(audioService')
          /\ \A t \in audioService'.timers : t.kind # "ceiling"]_vars

\* C17 witness: the ceiling timer of a tts session without speech synthesis
\* has fired while the session was live, and its onEnd has run once.
C17_Witness ==
  /\ SpeechMissing
  /\ lastOp.op = "ceiling" /\ lastOp.sess = 1
  /\ audioService.sessions[1].onEndCalls = 1
  /\ audioService.pending = {}
  /\ IdlePlayer(audioService)

\* C20: when the utterance of a live tts session without loop completes
\* naturally, onEnd is invoked and the session is over: the player is Idle, the
\* registration cleared and no ceiling timer armed.
C20_NaturalCompletion ==
  [][/\ lastOp'.op = "utteranceOnEnd"
     /\ audioService.onPlaybackEnd = 1
     /\ \E u \in audioService.endEvents : u.onEnd = "naturalEnd"
     =>
     /\ audioService'.sessions[1].onEndCalls = audioService.sessions[1].onEndCalls + 1
     /\ IdlePlayer(audioService')
     /\ \A t \in audioService'.timers : t.kind # "ceiling"]_vars

\* C19: saving an edit leaves the notified flag of the edited task as it was,
\* and so no task is alerted a second time after an edit.
C19_EditKeepsNotified ==
  /\ [][lastOp'.op = "onSave" =>
          \A i \in 1..Len(tasks) :
             tasks[i].id = lastOp'.id =>
               Notified(tasks'[i]) = Notified(tasks[i])]_vars
  /\ [](\A i \in 1..Len(tasks) : StartsIn(audioService, tasks[i].title) <= 1)

\* The one session runs the bell branch and is Playing: it has got past the
\* resume, and neither stop() nor the ceiling has ended it
BellPlaying(a) ==
  /\ a.sessions # <<>> /\ a.sessions[1].mode = "bell"
  /\ a.onPlaybackEnd = 1
  /\ \A p \in a.pending : p.stage # "resume"

\* the tone of session s sounds
Tone(s) == [sess |-> s, kind |-> "osc", loop |-> FALSE, data |-> ""]

\* C21: a looping bell session with a ceiling, which nobody stops.  The tone is
\* played at the start; while the session is Playing exactly one interval is
\* armed, and each time it fires the tone is played again and the interval
\* stays; the ceiling timer runs stop(), which leaves no interval and onEnd
\* invoked exactly once, and from then on no tone is started.
C21_BellLoop ==
  /\ [](BellPlaying(audioService) =>
          /\ {t \in audioService.timers : t.kind = "bell"}
               = {[sess |-> 1, kind |-> "bell"]}
          /\ audioService.loopInterval = 1
          /\ audioService.sessions[1].onEndCalls = 0)
  /\ [][~BellPlaying(audioService) /\ BellPlaying(audioService') =>
          Tone(1) \in audioService'.nodes]_vars
  /\ [][lastOp'.op = "bellInterval" =>
          /\ BellPlaying(audioService)
          /\ Tone(1) \in audioService'.nodes
          /\ audioService'.timers = audioService.timers]_vars
  /\ [][BellPlaying(audioService) /\ lastOp'.op = "ceiling" =>
          /\ audioService'.timers = {}
          /\ audioService'.nodes = {}
          /\ IdlePlayer(audioService')
          /\ audioService'.sessions[1].onEndCalls = 1]_vars
  /\ [](audioService.sessions # <<>> /\ audioService.sessions[1].mode = "bell"
          /\ CeilingHasFired =>
          /\ audioService.nodes = {} /\ audioService.timers = {}
          /\ audioService.sessions[1].onEndCalls = 1)

\* C21 witness: the ceiling timer of a looping bell session has fired; no
\* interval is armed, nothing sounds and onEnd has run once.
C21_Witness ==
  /\ lastOp.op = "ceiling" /\ lastOp.sess = 1
  /\ audioService.sessions[1].mode = "bell"
  /\ audioService.sessions[1].onEndCalls = 1
  /\ audioService.timers = {} /\ audioService.nodes = {}

\* C22: when an utterance of the live, looping tts session completes, the
\* phrase is spoken again at once, by the completion handler itself and not by
\* a timer, and onEnd is not invoked.
C22_SpeechLoop ==
  [][/\ lastOp'.op = "utteranceOnEnd"
     /\ audioService.onPlaybackEnd = 1
     /\ \E u \in audioService.endEvents : u.onEnd = "speakLoop"
     =>
     /\ audioService'.utterance = [sess |-> 1, onEnd |-> "speakLoop"]
     /\ \A t \in audioService'.timers : t.kind # "speakLoop"
     /\ audioService'.sessions[1].onEndCalls = 0]_vars

\* C23: a tick leaves the list as long as it was, with the same task (id) at
\* every index; no task loses a field or gains one other than notified; no
\* field other than notified and completed changes; and a task that is not
\* newly due in the tick is left as it was.
C23_TickFrame ==
  [][lastOp'.op = "tick" =>
       /\ Len(tasks') = Len(tasks)
       /\ \A i \in 1..Len(tasks) :
            /\ tasks'[i].id = tasks[i].id
            /\ DOMAIN tasks[i] \subseteq DOMAIN tasks'[i]
            /\ DOMAIN tasks'[i] \subseteq DOMAIN tasks[i] \cup {"notified"}
            /\ \A f \in DOMAIN tasks[i] \ {"notified", "completed"} :
                 tasks'[i][f] = tasks[i][f]
            /\ ~ClaimDue(tasks[i], clock) => tasks'[i] = tasks[i]]_vars

\* C23 witness: a tick has matched the second of two tasks; the first, not
\* due, is still first and as it was added.
C23_Witness ==
  /\ lastOp.op = "tick" /\ lastOp.due = 1
  /\ Len(tasks) = 2
  /\ tasks[1].id = 1 /\ ~Notified(tasks[1]) /\ ~tasks[1].completed
  /\ tasks[1].title = TitleOf(1) /\ tasks[1].priority = "medium"
  /\ tasks[2].id = 2 /\ Notified(tasks[2])
  /\ tasks[2].title = TitleOf(2) /\ tasks[2].priority = "medium"

\* C24: a tick never matches a task whose date or time is not well-formed (it
\* is left as it was and the player is not started for it), and the tasks that
\* are newly due in the same tick are marked notified and have the player
\* started; the tick starts the player for these and no others.
C24_MalformedSchedule ==
  [][lastOp'.op = "tick" =>
       /\ Len(tasks') = Len(tasks)
       /\ \A i \in 1..Len(tasks) :
            /\ ~WellFormed(tasks[i]) =>
                 /\ tasks'[i] = tasks[i]
                 /\ StartsIn(audioService', tasks[i].title)
                      = StartsIn(audioService, tasks[i].title)
            /\ WellFormed(tasks[i]) /\ ClaimDue(tasks[i], clock) =>
                 /\ Notified(tasks'[i])
                 /\ StartsIn(audioService', tasks[i].title)
                      = StartsIn(audioService, tasks[i].title) + 1
       /\ lastOp'.due =
            Cardinality({i \in 1..Len(tasks) :
                           WellFormed(tasks[i]) /\ ClaimDue(tasks[i], clock)})]_vars

\* C24 witness: a tick at 09:00 has matched the task imported for 09:00 and
\* left alone the task before it, whose time is the malformed 25:99.
C24_Witness ==
  /\ lastOp.op = "tick" /\ lastOp.due = 1
  /\ Len(tasks) = 2
  /\ tasks[1].time = "25:99" /\ ~Notified(tasks[1])
  /\ tasks[2].time = "09:00" /\ tasks[2].date = "2024-01-09"
  /\ Notified(tasks[2])
  /\ StartsIn(audioService, tasks[1].title) = 0
  /\ StartsIn(audioService, tasks[2].title) = 1

\* C25: in every state between handlers, if the player holds a session that
\* the scan started (its onEnd is registered), the ringing flag is true.
C25_RingingFlag ==
  (/\ audioService.onPlaybackEnd # 0
   /\ audioService.sessions[audioService.onPlaybackEnd].onEnd = "setIsAlarmRinging")
    => isAlarmRinging

\* C26: a tick does not start the player for a task that was alerted before.
\* In SpecSync every task id is scheduled for one minute only (task 1 for
\* 09:00, task 2 for 09:01), so an earlier alert of the id was an alert in the
\* minute of the tick.
C26_AtMostOnceUnderReplacement ==
  [][lastOp'.op = "tick" =>
       \A i \in 1..Len(tasks) :
          StartsIn(audioService', tasks[i].title)
            > StartsIn(audioService, tasks[i].title)
          => StartsIn(audioService, tasks[i].title) = 0]_vars

\* C27: the 'end' event of an utterance invokes no onEnd other than the one of
\* the session that spoke the utterance.
C27_SessionOwnsOnEnd ==
  [][lastOp'.op = "utteranceOnEnd" =>
       \A s \in 1..Len(audioService.sessions) :
          audioService'.sessions[s].onEndCalls > audioService.sessions[s].onEndCalls
          => s = lastOp'.sess]_vars

\* C28: a session without loop that nobody stops is eventually over: its
\* onEnd has been invoked, no onEnd is registered, nothing sounds and no timer
\* is armed.
C28_EndsOnItsOwn ==
  audioService.sessions # <<>>
    ~> (/\ audioService.sessions # <<>>
        /\ audioService.sessions[1].onEndCalls >= 1
        /\ audioService.onPlaybackEnd = 0
        /\ Sounding(audioService) = {}
        /\ audioService.timers = {})

\* C29: with finitely many changes from outside, the pushes stop: from some
\* point on no step is a saveTasks call.
C29_SyncQuiescence ==
  <>[][lastOp'.op # "saveTasks"]_vars

\* C30: a tick in which no task is newly due stores no new collection: the
\* tasks are as they were, the save effect does not run (the armed timeouts
\* are the same, none is added), and nothing else of the app or the player
\* changes.
C30_QuietTick ==
  [][/\ lastOp'.op = "tick"
     /\ \A i \in 1..Len(tasks) : ~ClaimDue(tasks[i], clock)
     =>
     /\ tasks' = tasks
     /\ app' = app
     /\ audioService' = audioService
     /\ isAlarmRinging' = isAlarmRinging]_vars

\* C30 witness: a tick has found nothing due while the push of a change was
\* pending, and the push is still pending, with the collection of that change.
C30_Witness ==
  /\ lastOp.op = "tick" /\ lastOp.due = 0
  /\ tasks # <<>>
  /\ app.currentUser
  /\ app.saveTimeouts = {[tasks |-> tasks, currentUser |-> TRUE]}
  /\ app.cloud # <<tasks>>

====
